---- MODULE Spec2Model ----
(***************************************************************************)
(* A model of the string analyzer API (app/main.py and app/utils).         *)
(*                                                                         *)
(* Python strings are sequences of one-character strings, so that          *)
(* lower(), strip(), split(), slicing, "in" and the regular expressions of *)
(* the parser are computed character by character.  A Python value that    *)
(* may be None is boxed: None is <<>> and the value x is <<x>>.  A Python  *)
(* dict is a function whose DOMAIN is the set of its keys; the store,      *)
(* whose order matters, is the sequence of its records in insertion order. *)
(***************************************************************************)
EXTENDS Integers, Sequences, FiniteSets, TLC

VARIABLES
    strings_db,   \* the in-memory store: records in insertion order
    now,          \* the reading datetime.now() gives
    resp,         \* the last request handled one at a time, with its response
    created,      \* history: value -> the record its last successful create returned, None once deleted
    deleted,      \* history: values deleted with 204 and not created again since
    pc,           \* concurrent handlers: the position of each worker thread
    preq,         \* concurrent handlers: the path or body value of each thread's request
    presp,        \* concurrent handlers: the last response of each thread
    wins,         \* history: value -> the records returned by its 201 creates since its last delete
    input,        \* function runs: the argument drawn for the function under study
    parsed        \* parser run: what parse_natural_language_query gave

vars == <<strings_db, now, resp, created, deleted, pc, preq, presp, wins, input, parsed>>

\* ------------------------------------------------------------------ bounds
MaxStore == 2     \* creates are explored while the store holds fewer records
MaxClock == 1     \* the clock is explored up to this reading
MaxParts == 2     \* parser queries are built from at most this many phrases

\* --------------------------------------------------------- Python values
None == <<>>
Some(x) == <<x>>
Range(s) == {s[i] : i \in 1..Len(s)}

Whitespace == {" ", "\t", "\n"}
UpperLetters == <<"A","B","C","D","E","F","G","H","I","J","K","L","M",
                  "N","O","P","Q","R","S","T","U","V","W","X","Y","Z">>
LowerLetters == <<"a","b","c","d","e","f","g","h","i","j","k","l","m",
                  "n","o","p","q","r","s","t","u","v","w","x","y","z">>
DigitChars == <<"0","1","2","3","4","5","6","7","8","9">>

\* str.lower(), one character
LowerChar(c) ==
    IF c \in Range(UpperLetters)
    THEN LowerLetters[CHOOSE i \in 1..Len(UpperLetters) : UpperLetters[i] = c]
    ELSE c

\* str.lower()
Lower(s) == [i \in 1..Len(s) |-> LowerChar(s[i])]

\* s[::-1]
Reversed(s) == [i \in 1..Len(s) |-> s[Len(s) + 1 - i]]

RECURSIVE LStrip(_)
LStrip(s) ==
    IF s # <<>> /\ Head(s) \in Whitespace THEN LStrip(Tail(s)) ELSE s

RECURSIVE RStrip(_)
RStrip(s) ==
    IF s # <<>> /\ s[Len(s)] \in Whitespace
    THEN RStrip(SubSeq(s, 1, Len(s) - 1))
    ELSE s

\* str.strip()
Strip(s) == RStrip(LStrip(s))

\* str.split(): the maximal runs of non-whitespace characters, in order
RECURSIVE SplitFrom(_, _, _)
SplitFrom(s, word, acc) ==
    IF s = <<>>
    THEN IF word = <<>> THEN acc ELSE Append(acc, word)
    ELSE IF Head(s) \in Whitespace
         THEN SplitFrom(Tail(s), <<>>, IF word = <<>> THEN acc ELSE Append(acc, word))
         ELSE SplitFrom(Tail(s), Append(word, Head(s)), acc)

Split(s) == SplitFrom(s, <<>>, <<>>)

\* set(value)
CharSet(s) == Range(s)

\* the occurrences counted without regard to case
Count_IgnoringCase(s, c) ==
    Cardinality({i \in 1..Len(s) : LowerChar(s[i]) = LowerChar(c)})

\* value.count(char), char one character
Count(s, c) == Cardinality({i \in 1..Len(s) : s[i] = c})

\* pat in s, for strings
StartsAt(s, i, pat) ==
    /\ i >= 1
    /\ i + Len(pat) - 1 <= Len(s)
    /\ SubSeq(s, i, i + Len(pat) - 1) = pat

Contains(s, pat) == \E i \in 1..(Len(s) + 1) : StartsAt(s, i, pat)

\* value.encode(): the code units of the characters the model uses
CodeOf(c) ==
    CASE c = " " -> 32
      [] c = "\t" -> 9
      [] c = "\n" -> 10
      [] c \in Range(DigitChars) -> 47 + CHOOSE i \in 1..10 : DigitChars[i] = c
      [] c \in Range(UpperLetters) -> 64 + CHOOSE i \in 1..26 : UpperLetters[i] = c
      [] c \in Range(LowerLetters) -> 96 + CHOOSE i \in 1..26 : LowerLetters[i] = c

Encode(s) == [i \in 1..Len(s) |-> CodeOf(s[i])]

\* sha256(...).hexdigest(): the digest is kept symbolic, a function of the
\* encoded bytes alone
Sha256Hex(bytes) == [sha256_of |-> bytes]

\* ------------------------------------------------------- request inputs
\* the values the filter engine is studied on: "a", "ab", "Aba", "a b"
FilterValues == { <<"a">>, <<"a", "b">>, <<"A", "b", "a">>, <<"a", " ", "b">> }

\* the values create, get and delete requests carry: "", " ", "a", " a ",
\* "Aba", "a b"
ApiValues ==
    { <<>>, <<" ">>, <<"a">>, <<" ", "a", " ">>, <<"A", "b", "a">>, <<"a", " ", "b">> }

StringValues == FilterValues \cup ApiValues

\* a path parameter is never empty: "/strings/" is another route
PathValues == ApiValues \ {<<>>}

\* --------------------------------------------------- property calculator
\* StringProperties(...) of analyze_string
StringProperties(value) ==
    [ length |-> Len(value),
      is_palindrome |-> Lower(value) = Reversed(Lower(value)),
      unique_characters |-> Cardinality(CharSet(value)),
      word_count |-> Len(Split(value)),
      sha256_hash |-> Sha256Hex(Encode(value)),
      character_frequency_map |-> [c \in CharSet(value) |-> Count(value, c)] ]

\* StringResponse(...) of analyze_string, created at time t
StringResponse(value, t) ==
    [ id |-> StringProperties(value).sha256_hash,
      value |-> value,
      properties |-> StringProperties(value),
      created_at |-> t ]

\* the payload check without strip(): only "" is refused
ValueRefused_EmptyOnly(value) == value = <<>>

\* the payload check of analyze_string: the value is refused when it is
\* None or blank (a StringRequest always holds a str)
ValueRefused(value) == Strip(value) = <<>>

\* ------------------------------------------------------------ the store
\* strings_db = {}: the store starts empty
EmptyDb == <<>>

\* key in strings_db
InDb(db, key) == \E i \in 1..Len(db) : db[i].key = key

IndexOf(db, key) == CHOOSE i \in 1..Len(db) : db[i].key = key

\* the first record of the store, whatever the key
DbGet_First(db, key) == db[1].val

\* strings_db[key]
DbGet(db, key) == db[IndexOf(db, key)].val

\* the entry always added at the end, the key being there or not
DbAssign_AlwaysAppend(db, key, val) == Append(db, [key |-> key, val |-> val])

\* strings_db[key] = val: a new key goes last, a key already there keeps
\* its place and takes the new value
DbAssign(db, key, val) ==
    IF InDb(db, key)
    THEN [db EXCEPT ![IndexOf(db, key)] = [key |-> key, val |-> val]]
    ELSE Append(db, [key |-> key, val |-> val])

\* the key removed together with the records stored after it
DbDel_FromKeyOn(db, key) == SubSeq(db, 1, IndexOf(db, key) - 1)

\* del strings_db[key], the key being there
DbDel(db, key) ==
    SubSeq(db, 1, IndexOf(db, key) - 1) \o SubSeq(db, IndexOf(db, key) + 1, Len(db))

\* list(strings_db.values())
DbValues(db) == [i \in 1..Len(db) |-> db[i].val]

\* ------------------------------------------------------------ responses
Response(op, req, status, body) ==
    [op |-> op, req |-> req, status |-> status, body |-> body]

ErrorBody(detail) == [detail |-> detail]

NoResponse == Response("none", <<>>, 0, <<>>)

\* --------------------------------------------------------------- dicts
\* a dict value is boxed, since a filter value may be None
EmptyDict == [k \in {} |-> None]

\* d[k] = v
DictPut(d, k, v) == [x \in (DOMAIN d) \cup {k} |-> IF x = k THEN v ELSE d[x]]

\* d.get(k)
DictGet(d, k) == IF k \in DOMAIN d THEN d[k] ELSE None

\* the truth value of an optional string: None and "" are false
TruthyStr(v) == v # None /\ v[1] # <<>>

\* -------------------------------------------------------- filter engine
\* the order in which filter_strings applies its predicates
FilterOrder ==
    <<"is_palindrome", "min_length", "max_length", "word_count", "contains_character">>

\* the max_length block comparing with < for <=
Narrow_MaxExclusive(k, filters, results) ==
    CASE k = "is_palindrome" ->
           IF DictGet(filters, k) # None
           THEN SelectSeq(results, LAMBDA x : x.properties.is_palindrome = filters[k][1])
           ELSE results
      [] k = "min_length" ->
           IF DictGet(filters, k) # None
           THEN SelectSeq(results, LAMBDA x : x.properties.length >= filters[k][1])
           ELSE results
      [] k = "max_length" ->
           IF DictGet(filters, k) # None
           THEN SelectSeq(results, LAMBDA x : x.properties.length < filters[k][1])
           ELSE results
      [] k = "word_count" ->
           IF DictGet(filters, k) # None
           THEN SelectSeq(results, LAMBDA x : x.properties.word_count = filters[k][1])
           ELSE results
      [] k = "contains_character" ->
           IF TruthyStr(DictGet(filters, k))
           THEN SelectSeq(results, LAMBDA x : Contains(x.value, filters[k][1]))
           ELSE results

\* one if-block of filter_strings: the results narrowed by the filter key k
Narrow(k, filters, results) ==
    CASE k = "is_palindrome" ->
           IF DictGet(filters, k) # None
           THEN SelectSeq(results, LAMBDA x : x.properties.is_palindrome = filters[k][1])
           ELSE results
      [] k = "min_length" ->
           IF DictGet(filters, k) # None
           THEN SelectSeq(results, LAMBDA x : x.properties.length >= filters[k][1])
           ELSE results
      [] k = "max_length" ->
           IF DictGet(filters, k) # None
           THEN SelectSeq(results, LAMBDA x : x.properties.length <= filters[k][1])
           ELSE results
      [] k = "word_count" ->
           IF DictGet(filters, k) # None
           THEN SelectSeq(results, LAMBDA x : x.properties.word_count = filters[k][1])
           ELSE results
      [] k = "contains_character" ->
           IF TruthyStr(DictGet(filters, k))
           THEN SelectSeq(results, LAMBDA x : Contains(x.value, filters[k][1]))
           ELSE results

\* the if-blocks applied one after the other, in the given order
RECURSIVE NarrowAll(_, _, _)
NarrowAll(order, filters, results) ==
    IF order = <<>>
    THEN results
    ELSE NarrowAll(Tail(order), filters, Narrow(Head(order), filters, results))

\* the no-match check left out: an empty result is returned as a list
filter_strings_NoMatchListed(db, filters) ==
    IF db = EmptyDb
    THEN [status |-> 404, body |-> ErrorBody("No strings found.")]
    ELSE LET results == NarrowAll(FilterOrder, filters, DbValues(db))
         IN  [status |-> 200,
              body |-> [data |-> results,
                        count |-> Len(results),
                        filters_applied |-> filters]]

\* filter_strings(filters) on the store db: the status and the body
filter_strings(db, filters) ==
    IF db = EmptyDb
    THEN [status |-> 404, body |-> ErrorBody("No strings found.")]
    ELSE LET results == NarrowAll(FilterOrder, filters, DbValues(db))
         IN  IF results = <<>>
             THEN [status |-> 404, body |-> ErrorBody("No matching strings found")]
             ELSE [status |-> 200,
                   body |-> [data |-> results,
                             count |-> Len(results),
                             filters_applied |-> filters]]

\* ------------------------------------------------ natural-language parser
SingleWord == <<"s", "i", "n", "g", "l", "e", " ", "w", "o", "r", "d">>
LongerThan == <<"l", "o", "n", "g", "e", "r", " ", "t", "h", "a", "n", " ">>
ShorterThan == <<"s", "h", "o", "r", "t", "e", "r", " ", "t", "h", "a", "n", " ">>
ContainingSp == <<"c", "o", "n", "t", "a", "i", "n", "i", "n", "g", " ">>
TheLetterSp == <<"t", "h", "e", " ", "l", "e", "t", "t", "e", "r", " ">>
Palindromic == <<"p", "a", "l", "i", "n", "d", "r", "o", "m", "i", "c">>
Palindrome == <<"p", "a", "l", "i", "n", "d", "r", "o", "m", "e">>

IsDigit(c) == c \in Range(DigitChars)
IsLowerLetter(c) == c \in Range(LowerLetters)
DigitValue(c) == (CHOOSE i \in 1..Len(DigitChars) : DigitChars[i] = c) - 1

\* (\d+) at position j, greedy: the digits from j on, "" when there is none
RECURSIVE DigitRun(_, _)
DigitRun(q, j) ==
    IF j <= Len(q) /\ IsDigit(q[j]) THEN <<q[j]>> \o DigitRun(q, j + 1) ELSE <<>>

\* int(digits)
RECURSIVE IntOf(_)
IntOf(digits) ==
    IF digits = <<>>
    THEN 0
    ELSE 10 * IntOf(SubSeq(digits, 1, Len(digits) - 1)) + DigitValue(digits[Len(digits)])

\* re.search(prefix + r"(\d+)", q) from position i on: the boxed group of the
\* leftmost match, None when there is no match
RECURSIVE SearchNumber(_, _, _)
SearchNumber(q, prefix, i) ==
    IF i > Len(q)
    THEN None
    ELSE IF StartsAt(q, i, prefix) /\ DigitRun(q, i + Len(prefix)) # <<>>
         THEN Some(DigitRun(q, i + Len(prefix)))
         ELSE SearchNumber(q, prefix, i + 1)

\* the optional group never given up once "the letter " has matched
MatchContainingAt_NoBacktrack(q, i) ==
    LET j == i + Len(ContainingSp)
        k == j + Len(TheLetterSp)
    IN  IF ~StartsAt(q, i, ContainingSp)
        THEN None
        ELSE IF StartsAt(q, j, TheLetterSp)
             THEN IF k <= Len(q) /\ IsLowerLetter(q[k]) THEN Some(<<q[k]>>) ELSE None
             ELSE IF j <= Len(q) /\ IsLowerLetter(q[j])
                  THEN Some(<<q[j]>>)
                  ELSE None

\* r"containing (?:the letter )?([a-z])" tried at position i: the optional
\* group is taken first, and given up when no letter follows it
MatchContainingAt(q, i) ==
    LET j == i + Len(ContainingSp)
        k == j + Len(TheLetterSp)
    IN  IF ~StartsAt(q, i, ContainingSp)
        THEN None
        ELSE IF StartsAt(q, j, TheLetterSp) /\ k <= Len(q) /\ IsLowerLetter(q[k])
             THEN Some(<<q[k]>>)
             ELSE IF j <= Len(q) /\ IsLowerLetter(q[j])
                  THEN Some(<<q[j]>>)
                  ELSE None

\* re.search(r"containing (?:the letter )?([a-z])", q) from position i on
RECURSIVE SearchContaining(_, _)
SearchContaining(q, i) ==
    IF i > Len(q)
    THEN None
    ELSE IF MatchContainingAt(q, i) # None
         THEN MatchContainingAt(q, i)
         ELSE SearchContaining(q, i + 1)

\* parse_natural_language_query(query): ok with the filters dict, or the
\* ValueError it raises
parse_natural_language_query(raw) ==
    LET q == Strip(Lower(raw))
        f0 == EmptyDict
        f1 == IF Contains(q, SingleWord) THEN DictPut(f0, "word_count", Some(1)) ELSE f0
        m2 == SearchNumber(q, LongerThan, 1)
        f2 == IF m2 # None THEN DictPut(f1, "min_length", Some(IntOf(m2[1]))) ELSE f1
        m3 == SearchNumber(q, ShorterThan, 1)
        f3 == IF m3 # None THEN DictPut(f2, "max_length", Some(IntOf(m3[1]))) ELSE f2
        m4 == SearchContaining(q, 1)
        f4 == IF m4 # None THEN DictPut(f3, "contains_character", Some(m4[1])) ELSE f3
        f5 == IF Contains(q, Palindromic) \/ Contains(q, Palindrome)
              THEN DictPut(f4, "is_palindrome", Some(TRUE))
              ELSE f4
    IN  IF DOMAIN f5 = {}
        THEN [ok |-> FALSE, error |-> "Unsupported query"]
        ELSE [ok |-> TRUE, filters |-> f5]

\* ------------------------------------------------- GET /strings inputs
\* StringFilters: every field is optional
StringFilterInputs ==
    [ is_palindrome : {None, Some(TRUE), Some(FALSE)},
      min_length : {None, Some(-1), Some(2), Some(5)},
      max_length : {None, Some(-1), Some(1), Some(3)},
      word_count : {None, Some(-1), Some(1), Some(2)},
      contains_character : {None, Some(<<>>), Some(<<"b">>), Some(<<"a", "b">>)} ]

NoFilters ==
    [ is_palindrome |-> None, min_length |-> None, max_length |-> None,
      word_count |-> None, contains_character |-> None ]

\* the list requests handled between the other requests
ListInputs ==
    { NoFilters,
      [NoFilters EXCEPT !.is_palindrome = Some(FALSE)],
      [NoFilters EXCEPT !.min_length = Some(-1)] }

\* the ValueError checks of get_all_strings
FiltersRefused(filters) ==
    \/ TruthyStr(filters.contains_character) /\ Len(filters.contains_character[1]) > 1
    \/ filters.min_length # None /\ filters.min_length[1] < 0
    \/ filters.max_length # None /\ filters.max_length[1] < 0
    \/ filters.word_count # None /\ filters.word_count[1] < 0

\* filters_dict of get_all_strings
FiltersDict(filters) ==
    [ k \in {"is_palindrome", "min_length", "max_length", "word_count",
             "contains_character"} |-> filters[k] ]

\* ----------------------------------- natural-language endpoint inputs
NLQueries ==
    { <<>>,                                                   \* ""
      <<" ">>,                                                \* " "
      <<"h", "e", "l", "l", "o">>,                            \* "hello"
      <<"p", "a", "l", "i", "n", "d", "r", "o", "m", "i", "c">>,
      <<"l", "o", "n", "g", "e", "r", " ", "t", "h", "a", "n", " ", "2">>,
      <<"l", "o", "n", "g", "e", "r", " ", "t", "h", "a", "n", " ", "9">>,
      <<"c", "o", "n", "t", "a", "i", "n", "i", "n", "g", " ", "t", "h", "e", " ",
        "l", "e", "t", "t", "e", "r", " ", "b">>,
      <<"S", "i", "n", "g", "l", "e", " ", "w", "o", "r", "d", " ",
        "p", "a", "l", "i", "n", "d", "r", "o", "m", "e", "s">> }

\* --------------------------------------- requests handled one at a time
SeqOnly == UNCHANGED <<pc, preq, presp, wins, input, parsed>>

\* GET /
root ==
    /\ resp' = Response("root", <<>>, 200, [message |-> "Hello! String API is running."])
    /\ UNCHANGED <<strings_db, now, created, deleted>>
    /\ SeqOnly

\* GET /strings
get_all_strings(filters) ==
    /\ resp' =
         IF FiltersRefused(filters)
         THEN Response("list", filters, 400, ErrorBody("Invalid query parameter values or types"))
         ELSE IF strings_db = EmptyDb
              THEN Response("list", filters, 404, ErrorBody("No strings found."))
              ELSE LET result == filter_strings(strings_db, FiltersDict(filters))
                   IN  Response("list", filters, result.status, result.body)
    /\ UNCHANGED <<strings_db, now, created, deleted>>
    /\ SeqOnly

\* the query parsed before the store is looked at
filter_by_natural_language_ParseFirst(q) ==
    /\ resp' =
         IF q = <<>>
         THEN Response("nl", q, 400, ErrorBody("Query is required and must be a string."))
         ELSE LET p == parse_natural_language_query(q)
              IN  IF ~p.ok
                  THEN Response("nl", q, 400, ErrorBody("Invalid query parameter values or types"))
                  ELSE IF strings_db = EmptyDb
                       THEN Response("nl", q, 404, ErrorBody("No strings found."))
                       ELSE LET result == filter_strings(strings_db, p.filters)
                            IN  IF result.status # 200
                                THEN Response("nl", q, result.status, result.body)
                                ELSE Response("nl", q, 200,
                                       [ data |-> result.body.data,
                                         count |-> result.body.count,
                                         filters_applied |-> result.body.filters_applied,
                                         interpreted_query |->
                                           [original |-> q, parsed_filters |-> p.filters] ])
    /\ UNCHANGED <<strings_db, now, created, deleted>>
    /\ SeqOnly

\* GET /strings/filter-by-natural-language
filter_by_natural_language(q) ==
    /\ resp' =
         IF q = <<>>
         THEN Response("nl", q, 400, ErrorBody("Query is required and must be a string."))
         ELSE IF strings_db = EmptyDb
              THEN Response("nl", q, 404, ErrorBody("No strings found."))
              ELSE LET p == parse_natural_language_query(q)
                   IN  IF ~p.ok
                       THEN Response("nl", q, 400, ErrorBody("Invalid query parameter values or types"))
                       ELSE LET result == filter_strings(strings_db, p.filters)
                            IN  IF result.status # 200
                                THEN Response("nl", q, result.status, result.body)
                                ELSE Response("nl", q, 200,
                                       [ data |-> result.body.data,
                                         count |-> result.body.count,
                                         filters_applied |-> result.body.filters_applied,
                                         interpreted_query |->
                                           [original |-> q, parsed_filters |-> p.filters] ])
    /\ UNCHANGED <<strings_db, now, created, deleted>>
    /\ SeqOnly

\* GET /strings/{string_value}
get_string(string_value) ==
    /\ resp' =
         IF ~InDb(strings_db, string_value)
         THEN Response("get", string_value, 404, ErrorBody("String not found."))
         ELSE Response("get", string_value, 200, DbGet(strings_db, string_value))
    /\ UNCHANGED <<strings_db, now, created, deleted>>
    /\ SeqOnly

\* the duplicate check left out
AlreadyExists_Never(db, value) == FALSE

\* the duplicate check of analyze_string
AlreadyExists(db, value) == InDb(db, value)

\* POST /strings
analyze_string(value) ==
    /\ IF ValueRefused(value)
       THEN /\ resp' = Response("create", value, 400, ErrorBody("String value is required."))
            /\ UNCHANGED <<strings_db, created, deleted>>
       ELSE IF AlreadyExists(strings_db, value)
            THEN /\ resp' = Response("create", value, 409,
                              ErrorBody("String already exists. Please enter a different string."))
                 /\ UNCHANGED <<strings_db, created, deleted>>
            ELSE /\ Len(strings_db) < MaxStore
                 /\ LET response == StringResponse(value, now)
                    IN  /\ strings_db' = DbAssign(strings_db, value, response)
                        /\ resp' = Response("create", value, 201, response)
                        /\ created' = [created EXCEPT ![value] = Some(response)]
                        /\ deleted' = deleted \ {value}
    /\ UNCHANGED now
    /\ SeqOnly

\* DELETE /strings/{string_value}
delete_string(string_value) ==
    /\ IF ~InDb(strings_db, string_value)
       THEN /\ resp' = Response("delete", string_value, 404, ErrorBody("String not found."))
            /\ UNCHANGED <<strings_db, created, deleted>>
       ELSE /\ strings_db' = DbDel(strings_db, string_value)
            /\ resp' = Response("delete", string_value, 204, <<>>)
            /\ created' = [created EXCEPT ![string_value] = None]
            /\ deleted' = deleted \cup {string_value}
    /\ UNCHANGED now
    /\ SeqOnly

\* time passes between two readings of datetime.now()
Tick ==
    /\ now < MaxClock
    /\ now' = now + 1
    /\ UNCHANGED <<strings_db, resp, created, deleted>>
    /\ SeqOnly

Init ==
    /\ strings_db = EmptyDb
    /\ now = 0
    /\ resp = NoResponse
    /\ created = [v \in StringValues |-> None]
    /\ deleted = {}
    /\ pc = <<>>
    /\ preq = <<>>
    /\ presp = <<>>
    /\ wins = <<>>
    /\ input = <<>>
    /\ parsed = None

Next ==
    \/ root
    \/ \E f \in ListInputs : get_all_strings(f)
    \/ \E q \in NLQueries : filter_by_natural_language(q)
    \/ \E v \in PathValues : get_string(v)
    \/ \E v \in ApiValues : analyze_string(v)
    \/ \E v \in PathValues : delete_string(v)
    \/ Tick

Spec == Init /\ [][Next]_vars

\* ---------------------------------------------- the filter engine alone
\* the store after the values of vs were created in this order, none of
\* them refused or already there
RECURSIVE StoreAfter(_)
StoreAfter(vs) ==
    IF vs = <<>>
    THEN EmptyDb
    ELSE LET value == vs[Len(vs)]
         IN  DbAssign(StoreAfter(SubSeq(vs, 1, Len(vs) - 1)), value, StringResponse(value, 0))

\* the orders in which up to MaxStore distinct values can have been created
CreationOrders ==
    UNION { {vs \in [1..n -> FilterValues] : \A i, j \in 1..n : vs[i] = vs[j] => i = j}
            : n \in 0..MaxStore }

InitFilter ==
    /\ \E vs \in CreationOrders : strings_db = StoreAfter(vs)
    /\ input \in StringFilterInputs
    /\ now = 0
    /\ resp = NoResponse
    /\ created = [v \in StringValues |->
                    IF InDb(strings_db, v) THEN Some(DbGet(strings_db, v)) ELSE None]
    /\ deleted = {}
    /\ pc = <<>>
    /\ preq = <<>>
    /\ presp = <<>>
    /\ wins = <<>>
    /\ parsed = None

\* the GET /strings request drawn is handled
HandleList ==
    /\ resp = NoResponse
    /\ get_all_strings(input)

NextFilter == HandleList

SpecFilter == InitFilter /\ [][NextFilter]_vars

\* -------------------------------------------------------- the parser alone
\* phrases the queries are built from
Phrases ==
    { <<"s", "i", "n", "g", "l", "e", " ", "w", "o", "r", "d">>,            \* single word
      <<"S", "i", "n", "g", "l", "e", " ", "W", "o", "r", "d">>,            \* Single Word
      <<"s", "i", "n", "g", "l", "e", "w", "o", "r", "d">>,                 \* singleword
      <<"l", "o", "n", "g", "e", "r", " ", "t", "h", "a", "n", " ", "3">>,  \* longer than 3
      <<"l", "o", "n", "g", "e", "r", " ", "t", "h", "a", "n", " ", "1", "2">>,
      <<"l", "o", "n", "g", "e", "r", " ", "t", "h", "a", "n", " ", "x">>,  \* longer than x
      <<"s", "h", "o", "r", "t", "e", "r", " ", "t", "h", "a", "n", " ", "0", "5">>,
      <<"c", "o", "n", "t", "a", "i", "n", "i", "n", "g", " ", "t", "h", "e", " ",
        "l", "e", "t", "t", "e", "r", " ", "z">>,                           \* containing the letter z
      <<"c", "o", "n", "t", "a", "i", "n", "i", "n", "g", " ", "Q">>,       \* containing Q
      <<"c", "o", "n", "t", "a", "i", "n", "i", "n", "g", " ", "t", "h", "e", " ",
        "l", "e", "t", "t", "e", "r", " ", "5">>,                           \* containing the letter 5
      <<"c", "o", "n", "t", "a", "i", "n", "i", "n", "g", " ", "5">>,       \* containing 5
      <<"p", "a", "l", "i", "n", "d", "r", "o", "m", "i", "c">>,            \* palindromic
      <<"a", " ", "p", "a", "l", "i", "n", "d", "r", "o", "m", "e">>,       \* a palindrome
      <<"s", "t", "r", "i", "n", "g", "s">>,                                \* strings
      <<>> }                                                                \* nothing

ExampleQuery ==
    <<"s", "i", "n", "g", "l", "e", " ", "w", "o", "r", "d", " ",
      "p", "a", "l", "i", "n", "d", "r", "o", "m", "i", "c", " ",
      "s", "t", "r", "i", "n", "g", "s", " ",
      "l", "o", "n", "g", "e", "r", " ", "t", "h", "a", "n", " ", "3">>

\* the phrases of ps, a space between two of them
RECURSIVE JoinPhrases(_)
JoinPhrases(ps) ==
    IF ps = <<>>
    THEN <<>>
    ELSE IF Len(ps) = 1
         THEN ps[1]
         ELSE ps[1] \o <<" ">> \o JoinPhrases(Tail(ps))

ParserQueries ==
    {ExampleQuery} \cup
    UNION { {JoinPhrases(ps) : ps \in [1..n -> Phrases]} : n \in 0..MaxParts }

InitParse ==
    /\ input \in ParserQueries
    /\ parsed = None
    /\ strings_db = EmptyDb
    /\ now = 0
    /\ resp = NoResponse
    /\ created = [v \in StringValues |-> None]
    /\ deleted = {}
    /\ pc = <<>>
    /\ preq = <<>>
    /\ presp = <<>>
    /\ wins = <<>>

\* the query drawn is parsed
ParseQuery ==
    /\ parsed = None
    /\ parsed' = Some(parse_natural_language_query(input))
    /\ UNCHANGED <<strings_db, now, resp, created, deleted, pc, preq, presp, wins, input>>

NextParse == ParseQuery

SpecParse == InitParse /\ [][NextParse]_vars

\* ------------------------------------- requests handled concurrently
\* FastAPI runs a "def" handler on a worker thread, and the interpreter may
\* switch threads between any two statements: a handler's check and its write
\* to strings_db are separate steps.
Threads == {"t1", "t2"}

\* the values concurrent create and delete requests carry: " ", "a", "Aba"
ConcValues == { <<" ">>, <<"a">>, <<"A", "b", "a">> }

ConcOnly == UNCHANGED <<resp, created, deleted, input, parsed>>

\* creates that passed the duplicate check and have not written yet
PendingCreates == {t \in Threads : pc[t] = "create_checked"}

\* analyze_string up to its duplicate check
CreateCheck(t, value) ==
    /\ pc[t] = "idle"
    /\ IF ValueRefused(value)
       THEN /\ presp' = [presp EXCEPT ![t] =
                           Response("create", value, 400, ErrorBody("String value is required."))]
            /\ UNCHANGED <<pc, preq>>
       ELSE IF AlreadyExists(strings_db, value)
            THEN /\ presp' = [presp EXCEPT ![t] =
                                Response("create", value, 409,
                                  ErrorBody("String already exists. Please enter a different string."))]
                 /\ UNCHANGED <<pc, preq>>
            ELSE /\ Len(strings_db) + Cardinality(PendingCreates) < MaxStore
                 /\ pc' = [pc EXCEPT ![t] = "create_checked"]
                 /\ preq' = [preq EXCEPT ![t] = value]
                 /\ UNCHANGED presp
    /\ UNCHANGED <<strings_db, now, wins>>
    /\ ConcOnly

\* analyze_string from the properties on: the record is built and written
CreateWrite(t) ==
    /\ pc[t] = "create_checked"
    /\ LET response == StringResponse(preq[t], now)
       IN  /\ strings_db' = DbAssign(strings_db, preq[t], response)
           /\ presp' = [presp EXCEPT ![t] = Response("create", preq[t], 201, response)]
           /\ wins' = [wins EXCEPT ![preq[t]] = Append(@, response)]
    /\ pc' = [pc EXCEPT ![t] = "idle"]
    /\ UNCHANGED <<now, preq>>
    /\ ConcOnly

\* delete_string up to its existence check
DeleteCheck(t, string_value) ==
    /\ pc[t] = "idle"
    /\ IF ~InDb(strings_db, string_value)
       THEN /\ presp' = [presp EXCEPT ![t] =
                           Response("delete", string_value, 404, ErrorBody("String not found."))]
            /\ UNCHANGED <<pc, preq>>
       ELSE /\ pc' = [pc EXCEPT ![t] = "delete_checked"]
            /\ preq' = [preq EXCEPT ![t] = string_value]
            /\ UNCHANGED presp
    /\ UNCHANGED <<strings_db, now, wins>>
    /\ ConcOnly

\* del strings_db[string_value]: a KeyError, answered 500, when another
\* thread removed the key since the check
DeleteRun(t) ==
    /\ pc[t] = "delete_checked"
    /\ IF InDb(strings_db, preq[t])
       THEN /\ strings_db' = DbDel(strings_db, preq[t])
            /\ presp' = [presp EXCEPT ![t] = Response("delete", preq[t], 204, <<>>)]
            /\ wins' = [wins EXCEPT ![preq[t]] = <<>>]
       ELSE /\ presp' = [presp EXCEPT ![t] =
                           Response("delete", preq[t], 500, ErrorBody("Internal Server Error"))]
            /\ UNCHANGED <<strings_db, wins>>
    /\ pc' = [pc EXCEPT ![t] = "idle"]
    /\ UNCHANGED <<now, preq>>
    /\ ConcOnly

TickConc ==
    /\ now < MaxClock
    /\ now' = now + 1
    /\ UNCHANGED <<strings_db, pc, preq, presp, wins>>
    /\ ConcOnly

InitConc ==
    /\ strings_db = EmptyDb
    /\ now = 0
    /\ pc = [t \in Threads |-> "idle"]
    /\ preq = [t \in Threads |-> <<>>]
    /\ presp = [t \in Threads |-> NoResponse]
    /\ wins = [v \in ConcValues |-> <<>>]
    /\ resp = NoResponse
    /\ created = [v \in StringValues |-> None]
    /\ deleted = {}
    /\ input = <<>>
    /\ parsed = None

NextConc ==
    \/ \E t \in Threads, v \in ConcValues : CreateCheck(t, v)
    \/ \E t \in Threads : CreateWrite(t)
    \/ \E t \in Threads, v \in ConcValues : DeleteCheck(t, v)
    \/ \E t \in Threads : DeleteRun(t)
    \/ TickConc

SpecConc == InitConc /\ [][NextConc]_vars

\* =================================================== properties checked
RECURSIVE SumOver(_, _)
SumOver(f, keys) ==
    IF keys = {}
    THEN 0
    ELSE LET k == CHOOSE x \in keys : TRUE
         IN  f[k] + SumOver(f, keys \ {k})

\* C1: once a create of v has succeeded and v has not been deleted since, a
\* further create of v, handled after it, is answered 409 and leaves the
\* store, the record under v included, exactly as it was.
C1_DuplicateCreateConflicts ==
    [][\A v \in ApiValues :
         (created[v] # None /\ analyze_string(v)) =>
             /\ resp'.status = 409
             /\ strings_db' = strings_db]_vars

\* a create was answered 409 for a value created before and still stored
C1_Witness ==
    /\ resp.op = "create"
    /\ resp.status = 409
    /\ created[resp.req] # None
    /\ InDb(strings_db, resp.req)

C3_GetReturnsCreatedRecord ==
    /\ \A v \in ApiValues :
         created[v] # None =>
             InDb(strings_db, v) /\ DbGet(strings_db, v) = created[v][1]
    /\ (resp.op = "get" /\ created[resp.req] # None) =>
             resp.status = 200 /\ resp.body = created[resp.req][1]

\* a get returned a record created at an earlier time, the store holding
\* other records too
C3_Witness ==
    /\ resp.op = "get"
    /\ resp.status = 200
    /\ resp.body.created_at < now
    /\ Len(strings_db) >= 2
    /\ strings_db[1].key # resp.req

\* C4, as claimed: every key is non-empty once trimmed, and no two keys of
\* the store are equal once trimmed.
C4_KeysUniqueAfterTrimming ==
    \A i, j \in 1..Len(strings_db) :
        /\ Strip(strings_db[i].key) # <<>>
        /\ Strip(strings_db[i].key) = Strip(strings_db[j].key) => i = j

\* C4, amended: every key is non-empty once trimmed, and no two entries of
\* the store have the same key, compared as the untrimmed strings they are.
C4_KeysUniqueAndNotBlank ==
    \A i, j \in 1..Len(strings_db) :
        /\ Strip(strings_db[i].key) # <<>>
        /\ strings_db[i].key = strings_db[j].key => i = j

\* two keys that are equal once trimmed are stored together
C4_Witness ==
    \E i, j \in 1..Len(strings_db) :
        /\ i # j
        /\ Strip(strings_db[i].key) = Strip(strings_db[j].key)

\* C7: in every record of the store and in every record a create returned,
\* the character_frequency_map values sum to length and its keys number
\* unique_characters.
FrequencyMapAgrees(p) ==
    /\ SumOver(p.character_frequency_map, DOMAIN p.character_frequency_map) = p.length
    /\ Cardinality(DOMAIN p.character_frequency_map) = p.unique_characters

C7_FrequencyMapSums ==
    /\ \A i \in 1..Len(strings_db) : FrequencyMapAgrees(strings_db[i].val.properties)
    /\ (resp.op = "create" /\ resp.status = 201) => FrequencyMapAgrees(resp.body.properties)

\* a stored record has a character occurring twice and letters in both cases
C7_Witness ==
    /\ \E i \in 1..Len(strings_db) :
         \E c \in DOMAIN strings_db[i].val.properties.character_frequency_map :
             strings_db[i].val.properties.character_frequency_map[c] >= 2
    /\ \E i \in 1..Len(strings_db) : Lower(strings_db[i].key) # strings_db[i].key

\* every order in which the five predicates can be applied
FilterOrders ==
    {o \in [1..Len(FilterOrder) -> Range(FilterOrder)] :
        \A i, j \in 1..Len(FilterOrder) : o[i] = o[j] => i = j}

\* the record r satisfies every field the filter f sets
Satisfies(r, f) ==
    /\ f.is_palindrome # None => r.properties.is_palindrome = f.is_palindrome[1]
    /\ f.min_length # None => r.properties.length >= f.min_length[1]
    /\ f.max_length # None => r.properties.length <= f.max_length[1]
    /\ f.word_count # None => r.properties.word_count = f.word_count[1]
    /\ f.contains_character # None =>
           \A n \in 1..Len(f.contains_character[1]) :
               f.contains_character[1][n] \in Range(r.value)

\* C5: on a store that is not empty, a GET /strings whose filter passes
\* validation returns the records satisfying every field set, in insertion
\* order, count being their number; every order of applying the five
\* predicates gives that list; and the answer is 404 exactly when it is empty.
C5_ListReturnsMatches ==
    (resp.op = "list" /\ ~FiltersRefused(resp.req) /\ strings_db # EmptyDb) =>
        LET matches == SelectSeq(DbValues(strings_db), LAMBDA r : Satisfies(r, resp.req))
        IN  /\ resp.status \in {200, 404}
            /\ resp.status = 404 <=> matches = <<>>
            /\ resp.status = 200 =>
                   /\ resp.body.data = matches
                   /\ resp.body.count = Len(matches)
            /\ \A o \in FilterOrders :
                   NarrowAll(o, FiltersDict(resp.req), DbValues(strings_db)) = matches

\* a list with three fields set returned some records of the store, not all
C5_Witness ==
    /\ resp.op = "list"
    /\ resp.status = 200
    /\ Cardinality({k \in DOMAIN resp.req : resp.req[k] # None}) >= 3
    /\ resp.req.max_length # None
    /\ Len(resp.body.data) < Len(strings_db)

\* C6: in every store state, a GET /strings whose min_length is greater than
\* its max_length, both non-negative and the other fields valid, is answered
\* 404: neither a list nor a validation error.
C6_MinAboveMaxNotFound ==
    ( /\ resp.op = "list"
      /\ ~FiltersRefused(resp.req)
      /\ resp.req.min_length # None
      /\ resp.req.max_length # None
      /\ resp.req.min_length[1] > resp.req.max_length[1] ) =>
        resp.status = 404

\* min_length=5 and max_length=3 were answered 404 on a store holding records
C6_Witness ==
    /\ resp.op = "list"
    /\ resp.req.min_length = Some(5)
    /\ resp.req.max_length = Some(3)
    /\ resp.status = 404
    /\ strings_db # EmptyDb

\* the query as the parser matches it: lower-cased, then trimmed
Normalised(raw) == Strip(Lower(raw))

\* "<prefix>N" occurs in q at position i, N a run of digits ending at j
NumberAt(q, prefix, i, j) ==
    /\ StartsAt(q, i, prefix)
    /\ i + Len(prefix) <= j
    /\ j <= Len(q)
    /\ \A n \in (i + Len(prefix))..j : IsDigit(q[n])

\* "containing c" or "containing the letter c" occurs in q at position i
LetterAt(q, i, c) ==
    /\ StartsAt(q, i, ContainingSp)
    /\ \/ StartsAt(q, i + Len(ContainingSp), <<c>>)
       \/ StartsAt(q, i + Len(ContainingSp), TheLetterSp \o <<c>>)

\* the filter keys whose pattern occurs in q
KeysOccurring(q) ==
    {k \in Range(FilterOrder) :
        \/ k = "word_count" /\ \E i \in 1..Len(q) : StartsAt(q, i, SingleWord)
        \/ k = "min_length" /\ \E i, j \in 1..Len(q) : NumberAt(q, LongerThan, i, j)
        \/ k = "max_length" /\ \E i, j \in 1..Len(q) : NumberAt(q, ShorterThan, i, j)
        \/ k = "contains_character" /\
              \E i \in 1..Len(q) : \E c \in Range(LowerLetters) : LetterAt(q, i, c)
        \/ k = "is_palindrome" /\
              \E i \in 1..Len(q) : StartsAt(q, i, Palindromic) \/ StartsAt(q, i, Palindrome)}

\* N is the number of the first "<prefix>N" of q, all its digits taken
FirstNumberIs(q, prefix, N) ==
    \E i, j \in 1..Len(q) :
        /\ NumberAt(q, prefix, i, j)
        /\ \A i2 \in 1..(i - 1) : \A j2 \in 1..Len(q) : ~NumberAt(q, prefix, i2, j2)
        /\ ~NumberAt(q, prefix, i, j + 1)
        /\ N = IntOf(SubSeq(q, i + Len(prefix), j))

\* c is a letter of the first "containing [the letter ]c" of q
FirstLetterIs(q, c) ==
    \E i \in 1..Len(q) :
        /\ LetterAt(q, i, c)
        /\ \A i2 \in 1..(i - 1) : \A c2 \in Range(LowerLetters) : ~LetterAt(q, i2, c2)

\* C8: parse_natural_language_query sets a filter key exactly when the key's
\* pattern occurs in the lower-cased, trimmed query, each with the value its
\* pattern gives and no other key; it fails exactly when the query is empty
\* or no pattern occurs; and the example query gives word_count 1,
\* is_palindrome true and min_length 3.
C8_ParserSetsExactlyThePatterns ==
    parsed # None =>
        LET q == Normalised(input)
            out == parsed[1]
        IN  /\ out.ok <=> ~(q = <<>> \/ KeysOccurring(q) = {})
            /\ out.ok =>
                 /\ DOMAIN out.filters = KeysOccurring(q)
                 /\ "word_count" \in DOMAIN out.filters => out.filters.word_count = Some(1)
                 /\ "is_palindrome" \in DOMAIN out.filters =>
                        out.filters.is_palindrome = Some(TRUE)
                 /\ "min_length" \in DOMAIN out.filters =>
                        FirstNumberIs(q, LongerThan, out.filters.min_length[1])
                 /\ "max_length" \in DOMAIN out.filters =>
                        FirstNumberIs(q, ShorterThan, out.filters.max_length[1])
                 /\ "contains_character" \in DOMAIN out.filters =>
                        /\ Len(out.filters.contains_character[1]) = 1
                        /\ FirstLetterIs(q, out.filters.contains_character[1][1])
            /\ input = ExampleQuery =>
                 /\ out.ok
                 /\ DOMAIN out.filters = {"word_count", "is_palindrome", "min_length"}
                 /\ out.filters.word_count = Some(1)
                 /\ out.filters.is_palindrome = Some(TRUE)
                 /\ out.filters.min_length = Some(3)

\* the example query was parsed into three filters
C8_Witness ==
    /\ parsed # None
    /\ input = ExampleQuery
    /\ parsed[1].ok
    /\ Cardinality(DOMAIN parsed[1].filters) = 3

\* the response r to a natural-language request is the one the order of
\* checks gives on the store db
NLAnswerInOrder(r, db) ==
    LET q == r.req
    IN  IF q = <<>>
        THEN r.status = 400
        ELSE IF Len(db) = 0
        THEN r.status = 404
        ELSE IF ~parse_natural_language_query(q).ok
        THEN r.status = 400
        ELSE LET filters == parse_natural_language_query(q).filters
                 result == filter_strings(db, filters)
             IN  IF result.status = 404
                 THEN r.status = 404
                 ELSE /\ r.status = 200
                      /\ r.body.data = result.body.data
                      /\ r.body.count = result.body.count
                      /\ r.body.filters_applied = filters
                      /\ r.body.interpreted_query.original = q
                      /\ r.body.interpreted_query.parsed_filters = filters

\* C9: the natural-language endpoint answers 400 to an empty query in every
\* store state; else 404 on an empty store, the query not parsed; else 400
\* to a query the parser rejects; else 404 when no record matches, and
\* otherwise the filter engine's list with interpreted_query.original the raw
\* query and parsed_filters the filter applied.  The store is left as it was.
C9_NaturalLanguageCheckOrder ==
    /\ [](resp.op = "nl" => NLAnswerInOrder(resp, strings_db))
    /\ [][resp'.op = "nl" => strings_db' = strings_db]_vars

\* a query the parser rejects was answered 404 on the empty store
C9_Witness ==
    /\ resp.op = "nl"
    /\ resp.status = 404
    /\ strings_db = EmptyDb
    /\ ~parse_natural_language_query(resp.req).ok

\* C10: two creates of one value, neither deleted in between, can both be
\* answered 201 when handled concurrently; whenever that has happened the
\* store holds one entry for the value, the record written last.
C10_RacingCreatesOverwrite ==
    \A v \in ConcValues :
        Len(wins[v]) >= 2 =>
            /\ Cardinality({i \in 1..Len(strings_db) : strings_db[i].key = v}) = 1
            /\ \A i \in 1..Len(strings_db) :
                   strings_db[i].key = v => strings_db[i].val = wins[v][Len(wins[v])]

\* both threads were answered 201 for the same value with no delete in
\* between, and the record stored is not the one written first
C10_Witness ==
    \E v \in ConcValues :
        /\ Len(wins[v]) = 2
        /\ \A t \in Threads :
               presp[t].op = "create" /\ presp[t].status = 201 /\ presp[t].req = v
        /\ wins[v][1] # wins[v][2]
        /\ InDb(strings_db, v)
        /\ DbGet(strings_db, v) = wins[v][2]

====
